---- MODULE Spec2Model ----
(***************************************************************************)
(* rustbx: brain extraction post-processing.                               *)
(*                                                                         *)
(*   SpecLcc / FairLcc  postprocess::largest_connected_component_3d, run   *)
(*                      step by step on every small binary mask, then once *)
(*                      more on its own output.                            *)
(*   SpecBx             bx::run_bx, stage by stage, with the inference     *)
(*                      adapter as a nondeterministic collaborator.        *)
(*   SpecBatch          main's batch loop over files of every failure kind.*)
(*   SpecPaths          main's batch loop over file names, for the output  *)
(*                      paths.                                             *)
(*                                                                         *)
(* An ndarray ArrayD is a record [shape, flat]: its dimensions and its     *)
(* elements in row-major (standard layout) order.  An f32 is an exact      *)
(* rational [num, den] in lowest terms; [num |-> -1, den |-> 0] is         *)
(* f32::NEG_INFINITY.                                                      *)
(***************************************************************************)
EXTENDS Integers, Sequences, FiniteSets, TLC

\* ------------------------------------------------------------------ bounds
\* Largest extent of a volume along one axis.
MaxDim == 3
\* Largest number of voxels of a mask given to the component labeler.
MaxVoxels == 8
\* Largest number of voxels of an input volume given to run_bx.
MaxBxVoxels == 3
\* Largest number of files in a batch (SpecBatch).
MaxFiles == 3
\* Largest number of command-line inputs (SpecPaths).
MaxInputs == 2
\* Largest number of tokens in a file name (SpecPaths).
MaxNameLen == 3

VARIABLES
    \* largest_connected_component_3d
    mask, labels, current_label, best_label, best_size, component_size,
    queue, xyz, pc, out,
    \* observers of the labeler: label writes and enqueues per voxel
    writes, enq,
    \* the labeler applied twice: which application, the first input and output
    pass, input0, first_out,
    \* run_bx
    data, max_val, normalized, logits_5d, logits_3d, brain, result,
    \* main
    inputs, output, files, i, reported, attempted, written, batch

lccVars  == <<mask, labels, current_label, best_label, best_size,
              component_size, queue, xyz, pc, out, writes, enq>>
passVars == <<pass, input0, first_out>>
bxVars   == <<data, max_val, normalized, logits_5d, logits_3d, brain, result>>
mainVars == <<inputs, output, files, i, reported, attempted, written, batch>>
vars     == <<lccVars, passVars, bxVars, mainVars>>

\* The value of a string variable the running specification does not use.
Unused == "unused"

\* ------------------------------------------------------------------ arrays
RECURSIVE Prod(_)
Prod(shape) ==
    IF shape = <<>> THEN 1 ELSE Head(shape) * Prod(Tail(shape))

Arr(shape, flat) == [shape |-> shape, flat |-> flat]

\* ArrayD::zeros / a constant array
Fill(shape, val) == Arr(shape, [k \in 1..Prod(shape) |-> val])

\* An array not computed yet.
NoArr == Arr(<<>>, <<>>)

\* The indices [[x, y, z]] of a 3D array.
Idx3(shape) ==
    (0..(shape[1] - 1)) \X (0..(shape[2] - 1)) \X (0..(shape[3] - 1))

\* Row-major position of [[x, y, z]] in the flat data (1-based).
Off(shape, v) == (v[1] * shape[2] + v[2]) * shape[3] + v[3] + 1

At(a, v) == a.flat[Off(a.shape, v)]

Put(a, v, val) == [a EXCEPT !.flat[Off(a.shape, v)] = val]

\* All 3D shapes with 1 <= extent <= MaxDim and at most n voxels.
Shapes3(n) ==
    {s \in (1..MaxDim) \X (1..MaxDim) \X (1..MaxDim) : Prod(s) <= n}

\* ------------------------------------------- largest_connected_component_3d
\* Mutant of offsets: the last offset also steps along y, a diagonal.
offsets_diagonal ==
    << <<-1, 0, 0>>, <<1, 0, 0>>,
       <<0, -1, 0>>, <<0, 1, 0>>,
       <<0, 0, -1>>, <<0, 1, 1>> >>

\* 6-connectivity offsets
offsets ==
    << <<-1, 0, 0>>, <<1, 0, 0>>,
       <<0, -1, 0>>, <<0, 1, 0>>,
       <<0, 0, -1>>, <<0, 0, 1>> >>

\* The neighbour lies outside the volume: continue.
OutOfBounds(shape, n) ==
    \/ n[1] < 0 \/ n[1] >= shape[1]
    \/ n[2] < 0 \/ n[2] >= shape[2]
    \/ n[3] < 0 \/ n[3] >= shape[3]

\* Mutant of Skip: the scan does not look at the label volume.
SkipMaskOnly(m, l) == m = 0

\* The scan passes over a background or already labelled voxel.
Skip(m, l) == m = 0 \/ l > 0

\* A neighbour joins the component: foreground and not yet labelled.
Unvisited(m, l) == m > 0 /\ l = 0

\* Mutant of Better: a component of equal size replaces the best one.
BetterOrEqual(size, best) == size >= best

\* Mutant of Better: the comparison is the wrong way round.
Smaller(size, best) == size < best

\* The finished component replaces the best one seen.
Better(size, best) == size > best

\* labels.mapv(|l| if l == best_label { 1u8 } else { 0u8 })
KeepVoxel(l, best) == IF l = best THEN 1 ELSE 0

\* The next voxel of  for x in 0..nx { for y in 0..ny { for z in 0..nz
\* (x = nx once the loops are over).
Advance(shape, v) ==
    IF v[3] + 1 < shape[3] THEN <<v[1], v[2], v[3] + 1>>
    ELSE IF v[2] + 1 < shape[2] THEN <<v[1], v[2] + 1, 0>>
    ELSE <<v[1] + 1, 0, 0>>

\* for &(dx, dy, dz) in &offsets, from the k-th offset on, around voxel c.
\* st carries the label volume and the queue (and the two observers).
RECURSIVE Neighbours(_, _, _, _, _)
Neighbours(m, cl, c, k, st) ==
    IF k > Len(offsets) THEN st
    ELSE
      LET n == <<c[1] + offsets[k][1], c[2] + offsets[k][2], c[3] + offsets[k][3]>>
          o == Off(m.shape, n)
          nst ==
            IF OutOfBounds(m.shape, n) THEN st
            ELSE IF Unvisited(At(m, n), At(st.labels, n))
            THEN [labels |-> Put(st.labels, n, cl),
                  queue  |-> Append(st.queue, n),
                  writes |-> [st.writes EXCEPT ![o] = @ + 1],
                  enq    |-> [st.enq EXCEPT ![o] = @ + 1]]
            ELSE st
      IN  Neighbours(m, cl, c, k + 1, nst)

\* Entry of the function on mask m: the label volume is all zero, no label
\* and no best component yet, the scan at (0, 0, 0).
EnterLcc(m) ==
    /\ mask' = m
    /\ labels' = Fill(m.shape, 0)
    /\ current_label' = 0
    /\ best_label' = 0
    /\ best_size' = 0
    /\ component_size' = 0
    /\ queue' = <<>>
    /\ xyz' = <<0, 0, 0>>
    /\ out' = NoArr
    /\ writes' = [k \in 1..Prod(m.shape) |-> 0]
    /\ enq' = [k \in 1..Prod(m.shape) |-> 0]
    /\ pc' = "scan"

\* if mask[[x, y, z]] == 0 || labels[[x, y, z]] > 0 { continue; }
ScanSkip ==
    /\ pc = "scan"
    /\ xyz[1] < mask.shape[1]
    /\ Skip(At(mask, xyz), At(labels, xyz))
    /\ xyz' = Advance(mask.shape, xyz)
    /\ UNCHANGED <<mask, labels, current_label, best_label, best_size,
                   component_size, queue, pc, out, writes, enq>>
    /\ UNCHANGED <<passVars, bxVars, mainVars>>

\* BFS from this voxel: a new label, the voxel labelled and enqueued.
StartComponent ==
    /\ pc = "scan"
    /\ xyz[1] < mask.shape[1]
    /\ ~Skip(At(mask, xyz), At(labels, xyz))
    /\ current_label' = current_label + 1
    /\ queue' = <<xyz>>
    /\ labels' = Put(labels, xyz, current_label + 1)
    /\ component_size' = 0
    /\ writes' = [writes EXCEPT ![Off(mask.shape, xyz)] = @ + 1]
    /\ enq' = [enq EXCEPT ![Off(mask.shape, xyz)] = @ + 1]
    /\ pc' = "bfs"
    /\ UNCHANGED <<mask, best_label, best_size, xyz, out>>
    /\ UNCHANGED <<passVars, bxVars, mainVars>>

\* while let Some((cx, cy, cz)) = queue.pop_front(): one iteration.
Pop ==
    /\ pc = "bfs"
    /\ queue # <<>>
    /\ LET st == Neighbours(mask, current_label, Head(queue), 1,
                            [labels |-> labels, queue |-> Tail(queue),
                             writes |-> writes, enq |-> enq])
       IN  /\ labels' = st.labels
           /\ queue' = st.queue
           /\ writes' = st.writes
           /\ enq' = st.enq
    /\ component_size' = component_size + 1
    /\ UNCHANGED <<mask, current_label, best_label, best_size, xyz, pc, out>>
    /\ UNCHANGED <<passVars, bxVars, mainVars>>

\* The queue is empty: compare the component with the best one, scan on.
FinishComponent ==
    /\ pc = "bfs"
    /\ queue = <<>>
    /\ IF Better(component_size, best_size)
       THEN best_size' = component_size /\ best_label' = current_label
       ELSE UNCHANGED <<best_size, best_label>>
    /\ xyz' = Advance(mask.shape, xyz)
    /\ pc' = "scan"
    /\ UNCHANGED <<mask, labels, current_label, component_size, queue, out,
                   writes, enq>>
    /\ UNCHANGED <<passVars, bxVars, mainVars>>

\* Keep only the largest component
Reduce ==
    /\ pc = "scan"
    /\ xyz[1] >= mask.shape[1]
    /\ out' = Arr(labels.shape,
                  [k \in 1..Prod(labels.shape) |->
                      KeepVoxel(labels.flat[k], best_label)])
    /\ pc' = "done"
    /\ UNCHANGED <<mask, labels, current_label, best_label, best_size,
                   component_size, queue, xyz, writes, enq>>
    /\ UNCHANGED <<passVars, bxVars, mainVars>>

LccStep == ScanSkip \/ StartComponent \/ Pop \/ FinishComponent \/ Reduce

\* The function applied to its own output.
Reapply ==
    /\ pc = "done"
    /\ pass = 1
    /\ pass' = 2
    /\ first_out' = out
    /\ EnterLcc(out)
    /\ UNCHANGED <<input0, bxVars, mainVars>>

\* Every binary mask of every shape of at most MaxVoxels voxels.
Masks(n) ==
    UNION {{Arr(s, f) : f \in [1..Prod(s) -> {0, 1}]} : s \in Shapes3(n)}

InitLcc ==
    /\ mask \in Masks(MaxVoxels)
    /\ labels = Fill(mask.shape, 0)
    /\ current_label = 0
    /\ best_label = 0
    /\ best_size = 0
    /\ component_size = 0
    /\ queue = <<>>
    /\ xyz = <<0, 0, 0>>
    /\ out = NoArr
    /\ writes = [k \in 1..Prod(mask.shape) |-> 0]
    /\ enq = [k \in 1..Prod(mask.shape) |-> 0]
    /\ pc = "scan"
    /\ pass = 1
    /\ input0 = mask
    /\ first_out = NoArr
    /\ data = NoArr /\ max_val = 0 /\ normalized = NoArr
    /\ logits_5d = NoArr /\ logits_3d = NoArr /\ brain = NoArr
    /\ result = Unused
    /\ inputs = <<>> /\ output = Unused /\ files = <<>> /\ i = 0
    /\ reported = {} /\ attempted = {} /\ written = {} /\ batch = Unused

NextLcc ==
    \/ ScanSkip
    \/ StartComponent
    \/ Pop
    \/ FinishComponent
    \/ Reduce
    \/ Reapply

SpecLcc == InitLcc /\ [][NextLcc]_vars

\* ------------------------------------- connected components, by definition
\* The foreground voxels of a mask.
Fg(m) == {v \in Idx3(m.shape) : At(m, v) # 0}

\* Two voxels differ by exactly 1 along exactly one axis.
Adjacent(u, v) ==
    LET d(a, b) == IF a >= b THEN a - b ELSE b - a
    IN  d(u[1], v[1]) + d(u[2], v[2]) + d(u[3], v[3]) = 1

\* The voxels of F reachable from S by chained adjacency.
RECURSIVE Grow(_, _)
Grow(S, F) ==
    LET T == S \cup {v \in F : \E u \in S : Adjacent(u, v)}
    IN  IF T = S THEN S ELSE Grow(T, F)

\* The maximal 6-connected groups of foreground voxels.
Components(m) == {Grow({v}, Fg(m)) : v \in Fg(m)}

\* The voxels on which an output mask is 1.
Ones(m) == {v \in Idx3(m.shape) : At(m, v) = 1}

\* The position of a set's first voxel in the lexicographic (x, y, z) scan.
FirstIn(shape, S) ==
    CHOOSE r \in {Off(shape, v) : v \in S} :
        \A v \in S : r <= Off(shape, v)

\* The voxels carrying label l.
Labelled(l) == {v \in Idx3(labels.shape) : At(labels, v) = l}

\* ------------------------------------------------- claims on the labeler
\* C1 (as claimed): for an all-zero mask the function returns an all-zero
\* mask of the same shape; no component is created and the best label stays
\* at its unset value.
C1_EmptyMaskGivesEmptyOutput ==
    (pc = "done" /\ pass = 1 /\ Fg(mask) = {}) =>
        /\ current_label = 0
        /\ best_label = 0
        /\ out.shape = mask.shape
        /\ \A v \in Idx3(out.shape) : At(out, v) = 0

\* C2: for a mask with at least one foreground voxel the output is 1 on
\* exactly the voxels of one maximal 6-connected component of the input,
\* that component has the maximum size among the components, and every
\* other voxel is 0.
C2_LargestComponentKept ==
    (pc = "done" /\ Fg(mask) # {}) =>
        /\ out.shape = mask.shape
        /\ \A v \in Idx3(out.shape) : At(out, v) \in {0, 1}
        /\ Ones(out) \in Components(mask)
        /\ \A C \in Components(mask) : Cardinality(C) <= Cardinality(Ones(out))

\* C2 witness: the function finished on a mask with components of different
\* sizes, the largest discovered after a smaller one.
C2_Witness ==
    /\ pc = "done"
    /\ pass = 1
    /\ best_label > 1
    /\ \E C \in Components(mask) : Cardinality(C) < best_size

\* The components of the largest size.
Largest(m) ==
    {C \in Components(m) : \A D \in Components(m) : Cardinality(D) <= Cardinality(C)}

\* C3: when several components share the largest size the function keeps
\* the one discovered first in the (x, y, z) scan, which is the one with the
\* lowest label; the best label is replaced only on a strictly larger size
\* (between two components, every finished component labelled before the best
\* one is strictly smaller than it and none labelled after it is larger).
C3_FirstLargestKept ==
    /\ (pc = "done" /\ Fg(mask) # {}) =>
          /\ Ones(out) \in Largest(mask)
          /\ \A C \in Largest(mask) :
                FirstIn(mask.shape, Ones(out)) <= FirstIn(mask.shape, C)
          /\ \A C \in Largest(mask) : \A v \in C : best_label <= At(labels, v)
    /\ pc \in {"scan", "done"} =>
          \A l \in 1..current_label :
              /\ l < best_label => Cardinality(Labelled(l)) < best_size
              /\ l = best_label => Cardinality(Labelled(l)) = best_size
              /\ l > best_label => Cardinality(Labelled(l)) <= best_size

\* C3 witness: the function finished on a mask with two or more components
\* of the largest size.
C3_Witness ==
    /\ pc = "done"
    /\ pass = 1
    /\ Cardinality(Largest(mask)) >= 2

\* C8: the function is idempotent: applied to its own output it returns that
\* output unchanged, and a mask that is exactly one 6-connected component is
\* returned unchanged.
C8_Idempotent ==
    /\ (pc = "done" /\ pass = 2) => out = first_out
    /\ (pc = "done" /\ Cardinality(Components(mask)) = 1) => out = mask

\* C8 witness: the second application finished, after a first application
\* that removed a smaller component from its input.
C8_Witness ==
    /\ pc = "done"
    /\ pass = 2
    /\ Fg(input0) # {}
    /\ first_out # input0
    /\ out = first_out

\* The labels handed out so far are 1..current_label, each on at least one
\* voxel, in strictly increasing order of the first voxel in scan order.
LabelsInScanOrder ==
    /\ \A v \in Idx3(labels.shape) : At(labels, v) \in 0..current_label
    /\ \A l \in 1..current_label : Labelled(l) # {}
    /\ \A a, b \in 1..current_label :
          a < b => FirstIn(labels.shape, Labelled(a)) < FirstIn(labels.shape, Labelled(b))

\* The voxels the scan has not passed yet.
Unscanned ==
    IF xyz[1] >= mask.shape[1] THEN 0
    ELSE Prod(mask.shape) - Off(mask.shape, xyz) + 1

\* A measure of the work left: voxels to scan, voxels to label (twice, each
\* is enqueued and popped), voxels to pop, and the final reduction.
WorkLeft ==
    Unscanned + 2 * Cardinality(Labelled(0)) + Len(queue)
        + (IF pc = "done" THEN 0 ELSE 1)

\* C9: every voxel's label is written at most once (a nonzero label is never
\* overwritten), every voxel is enqueued at most once, only foreground voxels
\* receive a label, labels are handed out as 1, 2, 3, ... in increasing order
\* of each component's first voxel in scan order, the size counted for a
\* component is the number of voxels carrying its label, and the traversal
\* terminates: it is never stuck before the end and every step lowers
\* WorkLeft, which is never negative.
C9_LabelOnceAndTerminates ==
    /\ [](  pc \in {"scan", "bfs", "done"} =>
              /\ \A k \in DOMAIN writes : writes[k] <= 1 /\ enq[k] <= 1
              /\ \A v \in Idx3(labels.shape) : At(labels, v) > 0 => At(mask, v) # 0
              /\ LabelsInScanOrder
              /\ pc = "bfs" =>
                    component_size + Len(queue) = Cardinality(Labelled(current_label))
              /\ best_label > 0 => best_size = Cardinality(Labelled(best_label))
              /\ WorkLeft >= 0
              /\ pc # "done" => ENABLED LccStep)
    /\ [][ pass' = pass =>
              /\ \A k \in DOMAIN labels.flat :
                    labels.flat[k] > 0 => labels'.flat[k] = labels.flat[k]
              /\ current_label' \in {current_label, current_label + 1}
              /\ WorkLeft' < WorkLeft ]_vars

\* C9 witness: the traversal of a component of several voxels is over, with
\* an earlier component already labelled.
C9_Witness ==
    /\ pc = "bfs"
    /\ queue = <<>>
    /\ current_label >= 2
    /\ component_size >= 2

\* ------------------------------------------------------------------ f32
RECURSIVE Gcd(_, _)
Gcd(a, b) == IF b = 0 THEN a ELSE Gcd(b, a % b)

\* The rational n / d (d > 0) in lowest terms.
Rat(n, d) ==
    LET g == Gcd(IF n < 0 THEN -n ELSE n, d)
    IN  [num |-> n \div g, den |-> d \div g]

NEG_INFINITY == [num |-> -1, den |-> 0]

Zero == Rat(0, 1)

\* a < b
Lt(a, b) == a.num * b.den < b.num * a.den

\* a <= b
Le(a, b) == a.num * b.den <= b.num * a.den

\* v / max_val, for max_val > 0
Div(a, b) == Rat(a.num * b.den, a.den * b.num)

\* f32::max
Max(a, b) == IF Lt(a, b) THEN b ELSE a

\* data.iter().cloned().fold(acc, f32::max)
RECURSIVE FoldMax(_, _)
FoldMax(flat, acc) ==
    IF flat = <<>> THEN acc ELSE FoldMax(Tail(flat), Max(acc, Head(flat)))

\* Voxel intensities of the input volumes: negative, zero, positive.
DataValues == {Rat(-1, 1), Rat(0, 1), Rat(2, 1)}

\* Logits the inference adapter returns: below and at the sigmoid's midpoint.
LogitValues == {Rat(-1, 1), Rat(0, 1)}

\* 1 / (1 + exp(-x)), to three decimals, at the logits of the model.
sigmoid1(x) ==
    CASE x = Rat(-1, 1) -> Rat(269, 1000)
      [] x = Rat(0, 1)  -> Rat(1, 2)
      [] x = Rat(1, 1)  -> Rat(731, 1000)

\* logits.mapv(|x| 1.0 / (1.0 + (-x).exp()))
sigmoid(logits) ==
    Arr(logits.shape, [k \in 1..Prod(logits.shape) |-> sigmoid1(logits.flat[k])])

\* prob.mapv(|v| if v >= th { 1u8 } else { 0u8 })
threshold_mask(prob, th) ==
    Arr(prob.shape,
        [k \in 1..Prod(prob.shape) |-> IF Le(th, prob.flat[k]) THEN 1 ELSE 0])

\* ------------------------------------------------------------------ run_bx
\* Shapes of volumes a NIfTI file can hold that are not 3-dimensional.
NotThreeD == {<<1, 1>>, <<1, 1, 1, 1>>}

\* The input volumes: every shape, every voxel in DataValues.
Volumes(n) ==
    UNION {{Arr(s, f) : f \in [1..Prod(s) -> DataValues]} :
              s \in Shapes3(n) \cup NotThreeD}

\* Output shapes of the external model for an input of shape s = (H, W, D):
\* (1, 1, H, W, D) as the adapter's contract says, no leading dimensions,
\* a leading dimension that is not a singleton, other spatial extents.
AdapterShapes(s) ==
    { <<1, 1, s[1], s[2], s[3]>>,
      <<s[1], s[2], s[3]>>,
      <<2, 1, s[1], s[2], s[3]>>,
      <<1, 1, s[3], s[2], s[1]>> }

\* run_bx returns or panics.
Return(r) ==
    /\ result' = r
    /\ pc' = "returned"

\* assert_eq!(shape.len(), 3); 1. Normalize to [0, 1]
Normalize ==
    /\ pc = "normalize"
    /\ IF Len(data.shape) # 3
       THEN /\ Return("panic")
            /\ UNCHANGED <<max_val, normalized>>
       ELSE /\ max_val' = FoldMax(data.flat, NEG_INFINITY)
            /\ normalized' =
                 IF Lt(Zero, max_val')
                 THEN Arr(data.shape,
                          [k \in 1..Prod(data.shape) |-> Div(data.flat[k], max_val')])
                 ELSE data
            /\ pc' = "infer"
            /\ UNCHANGED result
    /\ UNCHANGED <<data, logits_5d, logits_3d, brain>>
    /\ UNCHANGED <<mask, labels, current_label, best_label, best_size,
                   component_size, queue, xyz, out, writes, enq>>
    /\ UNCHANGED <<passVars, mainVars>>

\* 2. ONNX inference: inference::run_onnx(session, &normalized) fails.
InferFail ==
    /\ pc = "infer"
    /\ Return("err")
    /\ UNCHANGED <<data, max_val, normalized, logits_5d, logits_3d, brain>>
    /\ UNCHANGED <<mask, labels, current_label, best_label, best_size,
                   component_size, queue, xyz, out, writes, enq>>
    /\ UNCHANGED <<passVars, mainVars>>

\* 2. ONNX inference: the model's output, of whatever shape it has.
InferOk ==
    /\ pc = "infer"
    /\ \E s \in AdapterShapes(normalized.shape) :
         \E f \in [1..Prod(s) -> LogitValues] :
            logits_5d' = Arr(s, f)
    /\ pc' = "reshape"
    /\ UNCHANGED <<data, max_val, normalized, logits_3d, brain, result>>
    /\ UNCHANGED <<mask, labels, current_label, best_label, best_size,
                   component_size, queue, xyz, out, writes, enq>>
    /\ UNCHANGED <<passVars, mainVars>>

\* Extract the single-channel 3D logits: logits_shape[2], [3], [4] are read
\* (a panic if the output has fewer than 5 dimensions), and
\* into_shape_with_order fails if the element counts differ.
Reshape ==
    /\ pc = "reshape"
    /\ LET logits_shape == logits_5d.shape
       IN  IF Len(logits_shape) < 5
           THEN Return("panic") /\ UNCHANGED logits_3d
           ELSE LET to == <<logits_shape[3], logits_shape[4], logits_shape[5]>>
                IN  IF Prod(to) # Prod(logits_shape)
                    THEN Return("err") /\ UNCHANGED logits_3d
                    ELSE /\ logits_3d' = Arr(to, logits_5d.flat)
                         /\ pc' = "activate"
                         /\ UNCHANGED result
    /\ UNCHANGED <<data, max_val, normalized, logits_5d, brain>>
    /\ UNCHANGED <<mask, labels, current_label, best_label, best_size,
                   component_size, queue, xyz, out, writes, enq>>
    /\ UNCHANGED <<passVars, mainVars>>

\* 3. Sigmoid, 4. Threshold at 0.5, 5. Keep largest connected component
\* (the call; the labeler's steps follow).
Activate ==
    /\ pc = "activate"
    /\ EnterLcc(threshold_mask(sigmoid(logits_3d), Rat(1, 2)))
    /\ UNCHANGED <<bxVars, passVars, mainVars>>

\* Mutant of ApplyMask: the masked volume is taken from the normalized volume.
ApplyMaskNormalized ==
    /\ pc = "done"
    /\ result = "running"
    /\ IF out.shape # data.shape
       THEN Return("panic") /\ UNCHANGED brain
       ELSE /\ brain' = Arr(data.shape,
                            [k \in 1..Prod(data.shape) |->
                                IF out.flat[k] > 0 THEN normalized.flat[k] ELSE Zero])
            /\ Return("ok")
    /\ UNCHANGED <<data, max_val, normalized, logits_5d, logits_3d>>
    /\ UNCHANGED <<mask, labels, current_label, best_label, best_size,
                   component_size, queue, xyz, out, writes, enq>>
    /\ UNCHANGED <<passVars, mainVars>>

\* 6. Brain extracted = input x mask: Zip::from(data).and(&mask) panics if the
\* two shapes differ.
ApplyMask ==
    /\ pc = "done"
    /\ result = "running"
    /\ IF out.shape # data.shape
       THEN Return("panic") /\ UNCHANGED brain
       ELSE /\ brain' = Arr(data.shape,
                            [k \in 1..Prod(data.shape) |->
                                IF out.flat[k] > 0 THEN data.flat[k] ELSE Zero])
            /\ Return("ok")
    /\ UNCHANGED <<data, max_val, normalized, logits_5d, logits_3d>>
    /\ UNCHANGED <<mask, labels, current_label, best_label, best_size,
                   component_size, queue, xyz, out, writes, enq>>
    /\ UNCHANGED <<passVars, mainVars>>

InitBx ==
    /\ data \in Volumes(MaxBxVoxels)
    /\ max_val = Zero
    /\ normalized = NoArr
    /\ logits_5d = NoArr
    /\ logits_3d = NoArr
    /\ brain = NoArr
    /\ result = "running"
    /\ pc = "normalize"
    /\ mask = NoArr /\ labels = NoArr /\ out = NoArr
    /\ current_label = 0 /\ best_label = 0 /\ best_size = 0
    /\ component_size = 0 /\ queue = <<>> /\ xyz = <<0, 0, 0>>
    /\ writes = <<>> /\ enq = <<>>
    /\ pass = 1 /\ input0 = NoArr /\ first_out = NoArr
    /\ inputs = <<>> /\ output = Unused /\ files = <<>> /\ i = 0
    /\ reported = {} /\ attempted = {} /\ written = {} /\ batch = Unused

NextBx ==
    \/ Normalize
    \/ InferFail
    \/ InferOk
    \/ Reshape
    \/ Activate
    \/ ScanSkip
    \/ StartComponent
    \/ Pop
    \/ FinishComponent
    \/ Reduce
    \/ ApplyMask

SpecBx == InitBx /\ [][NextBx]_vars

\* --------------------------------------------------------- claims on run_bx
\* C5 (as claimed): for every output shape of the adapter, run_bx on a 3D
\* input either returns a mask and a masked volume of exactly the input's
\* shape or returns an error value; it never panics.
C5_ErrorNeverPanic ==
    (pc = "returned" /\ Len(data.shape) = 3) =>
        /\ result \in {"ok", "err"}
        /\ result = "ok" => (out.shape = data.shape /\ brain.shape = data.shape)

\* C6: on every successful run the masked volume is the original input value
\* where the final mask is 1 and 0 elsewhere, never a normalized value, and
\* the input volume is left unchanged by the run.
C6_MaskedFromOriginal ==
    /\ [](  result = "ok" =>
              /\ brain.shape = data.shape
              /\ \A k \in 1..Prod(data.shape) :
                    /\ out.flat[k] \in {0, 1}
                    /\ brain.flat[k] = (IF out.flat[k] = 1 THEN data.flat[k] ELSE Zero))
    /\ [][data' = data]_vars

\* C6 witness: a successful run whose final mask keeps a voxel that
\* normalization changed and drops a nonzero voxel.
C6_Witness ==
    /\ result = "ok"
    /\ \E k \in 1..Prod(data.shape) :
          out.flat[k] = 1 /\ normalized.flat[k] # data.flat[k]
    /\ \E k \in 1..Prod(data.shape) :
          out.flat[k] = 0 /\ data.flat[k] # Zero

\* C7 (as claimed): the normalized volume has the input's shape; if max_val > 0
\* every voxel is input / max_val and lies in [0, 1]; if max_val <= 0 the
\* normalized volume is the input.
C7_NormalizedInUnitInterval ==
    (pc = "infer") =>
        /\ normalized.shape = data.shape
        /\ IF Lt(Zero, max_val)
           THEN \A k \in 1..Prod(data.shape) :
                   /\ normalized.flat[k] = Div(data.flat[k], max_val)
                   /\ Le(Zero, normalized.flat[k])
                   /\ Le(normalized.flat[k], Rat(1, 1))
           ELSE normalized = data

\* ------------------------------------------------------------------ main
\* A path is [dir, name]: the parent directory and the file name, the name a
\* sequence of the tokens "a", ".nii", ".gz" (and, for outputs, "_tbet" and
\* "_tbetmask").  A file is [path, kind]; its kind says what the file system
\* and the model do for it: whether it can be read, the shape of its volume,
\* the adapter's output shape (<<>> if inference fails) and how many of the
\* two output files can be written.
Tokens == {"a", ".nii", ".gz"}

Dirs == {"d1", "d2"}

\* Byte order of the tokens and the directories ('.' < 'a', 'g' < 'n').
Rank(t) ==
    CASE t = ".gz" -> 1 [] t = ".nii" -> 2 [] t = "a" -> 3
      [] t = "d1" -> 1 [] t = "d2" -> 2

RECURSIVE NameLess(_, _)
NameLess(m, n) ==
    IF m = <<>> THEN n # <<>>
    ELSE IF n = <<>> THEN FALSE
    ELSE IF Head(m) # Head(n) THEN Rank(Head(m)) < Rank(Head(n))
    ELSE NameLess(Tail(m), Tail(n))

\* PathBuf's order: component by component.
PathLess(p, q) ==
    IF p.dir # q.dir THEN Rank(p.dir) < Rank(q.dir) ELSE NameLess(p.name, q.name)

\* files.sort()
RECURSIVE Insert(_, _)
Insert(f, sorted) ==
    IF sorted = <<>> THEN <<f>>
    ELSE IF PathLess(f.path, Head(sorted).path) THEN <<f>> \o sorted
    ELSE <<Head(sorted)>> \o Insert(f, Tail(sorted))

RECURSIVE Sort(_)
Sort(fs) == IF fs = <<>> THEN <<>> ELSE Insert(Head(fs), Sort(Tail(fs)))

\* files.dedup(): consecutive equal paths collapse to the first.
RECURSIVE Dedup(_)
Dedup(fs) ==
    IF Len(fs) <= 1 THEN fs
    ELSE IF fs[1].path = fs[2].path THEN Dedup(<<fs[1]>> \o SubSeq(fs, 3, Len(fs)))
    ELSE <<fs[1]>> \o Dedup(Tail(fs))

\* Literal paths of existing files are pushed, then sorted and deduplicated.
expand_inputs(args) == Dedup(Sort(args))

\* .replace(".nii.gz", ""): every non-overlapping occurrence, left to right.
RECURSIVE StripNiiGz(_)
StripNiiGz(n) ==
    IF n = <<>> THEN <<>>
    ELSE IF Len(n) >= 2 /\ n[1] = ".nii" /\ n[2] = ".gz"
    THEN StripNiiGz(SubSeq(n, 3, Len(n)))
    ELSE <<n[1]>> \o StripNiiGz(Tail(n))

\* .replace(".nii", "")
StripNii(n) == SelectSeq(n, LAMBDA t : t # ".nii")

\* output_paths(input, output_dir); output_dir "none" is None.
output_paths(input, output_dir) ==
    LET stem == StripNii(StripNiiGz(input.name))
        parent == IF output_dir # "none" THEN output_dir ELSE input.dir
    IN  [tbx     |-> [dir |-> parent, name |-> stem \o <<"_tbet", ".nii", ".gz">>],
         tbxmask |-> [dir |-> parent, name |-> stem \o <<"_tbetmask", ".nii", ".gz">>]]

\* What run_bx does for an input of this shape when the adapter returns an
\* output of shape adapter: the outcome of Normalize .. ApplyMask above.
run_bx(shape, adapter) ==
    IF Len(shape) # 3 THEN "panic"
    ELSE IF adapter = <<>> THEN "err"
    ELSE IF Len(adapter) < 5 THEN "panic"
    ELSE IF Prod(<<adapter[3], adapter[4], adapter[5]>>) # Prod(adapter) THEN "err"
    ELSE IF <<adapter[3], adapter[4], adapter[5]>> # shape THEN "panic"
    ELSE "ok"

\* process_file: "ok", "err" (an Err is returned) or "panic".
process_file(f) ==
    IF ~f.kind.readable THEN "err"
    ELSE LET r == run_bx(f.kind.shape, f.kind.adapter)
         IN  IF r # "ok" THEN r
             ELSE IF f.kind.nwrite < 2 THEN "err" ELSE "ok"

\* The output files process_file writes for f before it returns.
Writes(f, output_dir) ==
    IF f.kind.readable /\ run_bx(f.kind.shape, f.kind.adapter) = "ok"
    THEN (IF f.kind.nwrite >= 1 THEN {output_paths(f.path, output_dir).tbx} ELSE {})
         \cup (IF f.kind.nwrite >= 2 THEN {output_paths(f.path, output_dir).tbxmask} ELSE {})
    ELSE {}

Kind(readable, shape, adapter, nwrite) ==
    [readable |-> readable, shape |-> shape, adapter |-> adapter, nwrite |-> nwrite]

\* A file that is processed without failure.
GoodKind == Kind(TRUE, <<2, 1, 1>>, <<1, 1, 2, 1, 1>>, 2)

\* One kind of file per failure of the error taxonomy.
Kinds ==
    { GoodKind,
      Kind(FALSE, <<2, 1, 1>>, <<1, 1, 2, 1, 1>>, 2),     \* read I/O failure
      Kind(TRUE, <<2, 1, 1, 1>>, <<1, 1, 2, 1, 1>>, 2),   \* volume not 3-dimensional
      Kind(TRUE, <<2, 1, 1>>, <<>>, 2),                   \* inference failure
      Kind(TRUE, <<2, 1, 1>>, <<2, 1, 2, 1, 1>>, 2),      \* reshape failure
      Kind(TRUE, <<2, 1, 1>>, <<2, 1, 1>>, 2),            \* output of rank < 5
      Kind(TRUE, <<2, 1, 1>>, <<1, 1, 1, 1, 2>>, 2),      \* other spatial extents
      Kind(TRUE, <<2, 1, 1>>, <<1, 1, 2, 1, 1>>, 0),      \* write I/O failure
      Kind(TRUE, <<2, 1, 1>>, <<1, 1, 2, 1, 1>>, 1) }     \* write failure, mask

\* Sequences of 1..n elements of S.
SeqUpTo(S, n) == UNION {[1..k -> S] : k \in 1..n}

\* Every file name of at most MaxNameLen tokens.
Names == SeqUpTo(Tokens, MaxNameLen)

Paths == {[dir |-> d, name |-> n] : d \in Dirs, n \in Names}

\* The k-th file of a batch: "a.nii", "aa.nii", ... in directory d1.
BatchPath(k) == [dir |-> "d1", name |-> [j \in 1..(k + 1) |-> IF j <= k THEN "a" ELSE ".nii"]]

\* let files = expand_inputs(&args.inputs)?; the loop starts at the first file.
ExpandInputs ==
    /\ batch = "expand"
    /\ files' = expand_inputs(inputs)
    /\ i' = 1
    /\ batch' = "loop"
    /\ UNCHANGED <<inputs, output, reported, attempted, written>>
    /\ UNCHANGED <<lccVars, passVars, bxVars>>

\* One iteration of  for (i, input) in files.iter().enumerate(): an Err is
\* printed and the loop goes on; a panic unwinds main.
ProcessFile ==
    /\ batch = "loop"
    /\ i <= Len(files)
    /\ attempted' = attempted \cup {i}
    /\ written' = written \cup {<<w, i>> : w \in Writes(files[i], output)}
    /\ LET r == process_file(files[i])
       IN  /\ reported' = IF r = "err" THEN reported \cup {i} ELSE reported
           /\ IF r = "panic"
              THEN batch' = "panicked" /\ UNCHANGED i
              ELSE i' = i + 1 /\ UNCHANGED batch
    /\ UNCHANGED <<inputs, output, files>>
    /\ UNCHANGED <<lccVars, passVars, bxVars>>

\* println!("Done!"); Ok(())
FinishBatch ==
    /\ batch = "loop"
    /\ i > Len(files)
    /\ batch' = "done"
    /\ UNCHANGED <<inputs, output, files, i, reported, attempted, written>>
    /\ UNCHANGED <<lccVars, passVars, bxVars>>

InitMain ==
    /\ output \in {"none", "out"}
    /\ files = <<>>
    /\ i = 0
    /\ reported = {}
    /\ attempted = {}
    /\ written = {}
    /\ batch = "expand"
    /\ mask = NoArr /\ labels = NoArr /\ out = NoArr
    /\ current_label = 0 /\ best_label = 0 /\ best_size = 0
    /\ component_size = 0 /\ queue = <<>> /\ xyz = <<0, 0, 0>>
    /\ writes = <<>> /\ enq = <<>> /\ pc = Unused
    /\ pass = 1 /\ input0 = NoArr /\ first_out = NoArr
    /\ data = NoArr /\ max_val = Zero /\ normalized = NoArr
    /\ logits_5d = NoArr /\ logits_3d = NoArr /\ brain = NoArr
    /\ result = Unused

\* A batch of up to MaxFiles files with distinct names, of every kind.
InitBatch ==
    /\ \E ks \in SeqUpTo(Kinds, MaxFiles) :
          inputs = [k \in 1..Len(ks) |-> [path |-> BatchPath(k), kind |-> ks[k]]]
    /\ InitMain

\* Up to MaxInputs files of every name, all processed without failure.
InitPaths ==
    /\ \E ps \in SeqUpTo(Paths, MaxInputs) :
          inputs = [k \in 1..Len(ps) |-> [path |-> ps[k], kind |-> GoodKind]]
    /\ InitMain

NextMain ==
    \/ ExpandInputs
    \/ ProcessFile
    \/ FinishBatch

SpecBatch == InitBatch /\ [][NextMain]_vars

SpecPaths == InitPaths /\ [][NextMain]_vars

\* ----------------------------------------------------------- claims on main
\* C4 (as claimed): whatever failure occurs on an input (volume not
\* 3-dimensional, inference failure, reshape failure, read or write failure),
\* it is reported for that input and every later input is still processed:
\* when the program ends every file was processed and every failed file
\* was reported.
C4_BatchContinues ==
    (batch \in {"done", "panicked"}) =>
        /\ attempted = 1..Len(files)
        /\ reported = {j \in 1..Len(files) : process_file(files[j]) # "ok"}

\* C10 (as claimed): any two distinct resolved inputs of a batch have
\* distinct masked-volume paths and distinct mask paths, so no output file is
\* written for two inputs.
C10_DistinctOutputs ==
    (batch \in {"loop", "done"}) =>
        /\ \A a, b \in 1..Len(files) :
              a # b =>
                 /\ files[a].path # files[b].path
                 /\ output_paths(files[a].path, output).tbx
                       # output_paths(files[b].path, output).tbx
                 /\ output_paths(files[a].path, output).tbxmask
                       # output_paths(files[b].path, output).tbxmask
        /\ \A w1, w2 \in written : w1[1] = w2[1] => w1[2] = w2[2]

\* The stages of run_bx end as run_bx(shape, adapter) says.
BxOutcomeAgrees ==
    (pc = "returned") =>
        result = run_bx(data.shape,
                        IF logits_5d = NoArr THEN <<>> ELSE logits_5d.shape)

====
